---------------------------- MODULE Spec2Model ----------------------------
(***************************************************************************)
(* The reconciliation core of the STUNner daemon (src/config.go):          *)
(* Stunner.Reconcile drives the admin, auth, listener and cluster          *)
(* managers, in that order, towards a desired configuration, and           *)
(* Stunner.GetConfig reads the running configuration back.                 *)
(*                                                                         *)
(* Stunner.Reconcile is modelled statement by statement: one action per    *)
(* manager call, one per factory-loop iteration, one for the logger        *)
(* rebind and one per warning check.  The fields of the request are drawn  *)
(* where the code first reads them (req.Admin at line 147, req.Auth at     *)
(* line 167, req.Listeners at lines 185-188, req.Clusters at lines         *)
(* 213-216); the outcome of req.Validate() is drawn at line 140.           *)
(*                                                                         *)
(* The generic manager and the objects' in-place update live in the        *)
(* package internal/object; they are modelled from section 4.1 of the      *)
(* specification.  The factories and Validate are calls into other         *)
(* packages, whose outcomes are inputs.  The variables pre, built,         *)
(* invoked, signalled, novel, rel, raised and sentinel are history         *)
(* variables: they record what the call in progress has done and decide    *)
(* nothing.  merr is the local variable err after a manager's Reconcile.   *)
(*                                                                         *)
(* Stunner.GetConfig is modelled statement by statement as well, one       *)
(* action per read of a manager, since the code takes no lock between      *)
(* them; gSeen is its history variable.  There are three specifications:   *)
(* Spec runs Reconcile calls alone, SpecSerial adds GetConfig calls        *)
(* between Reconcile calls, and SpecConcurrent lets a GetConfig call run   *)
(* while a Reconcile call is in progress.                                  *)
(***************************************************************************)
EXTENDS Integers, Sequences, FiniteSets, TLC

(***************************************************************************)
(* Bounds and value domains.                                               *)
(***************************************************************************)
\* Listener names are 1..MaxListeners, cluster names 1..MaxClusters.
MaxListeners == 2

MaxClusters == 1

ListenerNames == 1..MaxListeners

ClusterNames == 1..MaxClusters

\* The fields of a configuration other than its name (and, for the admin
\* configuration, other than the log level): only their equality matters.
Settings == {"s1", "s2"}

LogLevels == {"all:INFO", "all:TRACE"}

DefaultLogLevel == "all:INFO"

AdminKey == "admin"

AuthKey == "auth"

AdminConfs == [Name : {AdminKey}, LogLevel : LogLevels, Settings : Settings]

AuthConfs == [Name : {AuthKey}, Settings : Settings]

\* The ordered lists of named configurations a valid request may carry:
\* names are unique within a list.
ConfLists(names) ==
    { s \in UNION { [1..n -> [Name : names, Settings : Settings]] :
                      n \in 0..Cardinality(names) } :
        \A i, j \in 1..Len(s) : i # j => s[i].Name # s[j].Name }

ListenerConfLists == ConfLists(ListenerNames)

ClusterConfLists == ConfLists(ClusterNames)

(***************************************************************************)
(* Errors.                                                                 *)
(***************************************************************************)
Nil == "nil"

ErrRestartRequired == "ErrRestartRequired"

ErrInvalidConf == "ErrInvalidConf"

\* A failed in-place update of an object.
ErrUpdate == "ErrUpdate"

\* The fatal errors a factory may return.
FactoryErrs == {"ErrFactoryA", "ErrFactoryB"}

FactoryOutcomes == {Nil, ErrRestartRequired} \cup FactoryErrs

NoVerdict == "none"

(***************************************************************************)
(* State.                                                                  *)
(***************************************************************************)
VARIABLES
    adminM,     \* s.adminManager: identity key -> configuration of the object
    authM,      \* s.authManager
    listenerM,  \* s.listenerManager
    clusterM,   \* s.clusterManager
    logger,     \* s.logger / s.log: the active logger factory
    pc,         \* the position of the Reconcile call in progress
    valid,      \* whether req.Validate() passed
    reqNoListeners, \* whether req.Listeners is empty
    restart,    \* the local variable restart of Reconcile
    conf,       \* the list handed to the current manager (lconf, cconf, ...)
    todo,       \* what is left of the current range loop over toConstruct
    verdict,    \* the value Reconcile returned
    warnings,   \* the warnings this call has logged
    \* history variables of the call in progress
    pre,        \* the current stage's manager as it was before its Reconcile
    built,      \* the names the current stage's factory was invoked for
    invoked,    \* the manager and factory calls made so far
    signalled,  \* the last stage that signalled RestartRequired
    novel,      \* every listener/cluster name desired so far was new
    rel,        \* how the request read so far relates to the current state
    raised,     \* where the call met a fatal error, and which
    sentinel,   \* a factory of this call returned RestartRequired
    merr,       \* err: what this call's last Manager.Reconcile returned
    \* the GetConfig call in progress
    gpc,        \* its position
    gListeners, \* listeners: what listenerManager.Keys() returned
    gClusters,  \* clusters: what clusterManager.Keys() returned
    gConf,      \* c: the configuration being assembled
    gRet,       \* the configuration the last GetConfig call returned
    gSeen       \* history: the listener and cluster managers at each
                \* instant of the call

\* The variables of the GetConfig call, but for its history.
gcall == << gpc, gListeners, gClusters, gConf, gRet >>

gvars == << gcall, gSeen >>

\* The variables of the Reconcile call and of the daemon.
rvars == << adminM, authM, listenerM, clusterM, logger, pc, valid,
            reqNoListeners, restart, conf, todo, verdict, warnings, pre,
            built, invoked, signalled, novel, rel, raised, sentinel,
            merr >>

vars == << rvars, gvars >>

Managers == << adminM, authM, listenerM, clusterM >>

NoObjects == << >>

NoRaise == [from |-> "none", err |-> Nil]

\* GetConfig has assembled nothing.
NoConf == << >>

NoSeen == [listener |-> {}, cluster |-> {}]

(***************************************************************************)
(* The generic manager and the objects (section 4.1 of the spec).          *)
(***************************************************************************)
ConfNames(confs) == { confs[i].Name : i \in 1..Len(confs) }

ConfOf(confs, k) == confs[CHOOSE i \in 1..Len(confs) : confs[i].Name = k]

\* A change that touches the log level only.
HotOnly(old, new) ==
    /\ "LogLevel" \in DOMAIN old
    /\ [old EXCEPT !.LogLevel = new.LogLevel] = new

\* Object.Reconcile(conf): the outcomes of an in-place update.  An unchanged
\* configuration and a change of the log level alone are applied live; any
\* other change succeeds, needs a restart or fails.
UpdateOutcomes(old, new) ==
    IF new = old \/ HotOnly(old, new)
    THEN {Nil}
    ELSE {Nil, ErrRestartRequired, ErrUpdate}

\* The in-place updates a manager may see for its objects under confs.
UpdateChoices(m, confs) ==
    { upd \in [DOMAIN m -> {Nil, ErrRestartRequired, ErrUpdate}] :
        \A k \in DOMAIN m :
            IF k \in ConfNames(confs)
            THEN upd[k] \in UpdateOutcomes(m[k], ConfOf(confs, k))
            ELSE upd[k] = Nil }

\* Step 4: the objects whose key is not desired are removed.
RemoveStale(m, confs) == [k \in DOMAIN m \cap ConfNames(confs) |-> m[k]]

RECURSIVE ManagerLoop(_, _, _, _, _, _)
\* Steps 1-3, over confs[i..], then step 4.
ManagerLoop(m, confs, i, new, rst, upd) ==
    IF i > Len(confs)
    THEN [objects |-> RemoveStale(m, confs), new |-> new,
          err |-> IF rst THEN ErrRestartRequired ELSE Nil]
    ELSE LET c == confs[i]
             k == c.Name
         IN  IF k \notin DOMAIN m
             THEN ManagerLoop(m, confs, i + 1, Append(new, c), rst, upd)
             ELSE CASE upd[k] = Nil ->
                         ManagerLoop([m EXCEPT ![k] = c], confs, i + 1,
                                     new, rst, upd)
                    [] upd[k] = ErrRestartRequired ->
                         ManagerLoop(m, confs, i + 1, new, TRUE, upd)
                    [] OTHER ->
                         [objects |-> m, new |-> << >>, err |-> upd[k]]

\* Manager.Reconcile(desired) -> (toConstruct, error), and the manager after.
ManagerReconcile(m, confs, upd) == ManagerLoop(m, confs, 1, << >>, FALSE, upd)

\* Manager.Upsert(object): the object is held as the configuration it wraps.
Upsert(m, o) ==
    [k \in DOMAIN m \cup {o.Name} |-> IF k = o.Name THEN o ELSE m[k]]

RECURSIVE SortedSeq(_)
SortedSeq(S) ==
    IF S = {} THEN << >>
    ELSE LET least == CHOOSE x \in S : \A y \in S : x <= y
         IN  << least >> \o SortedSeq(S \ {least})

\* Manager.Keys(): the deterministic listing of the current identities.
Keys(m) == SortedSeq(DOMAIN m)

\* NewLoggerFactory(level)
NewLoggerFactory(level) == [DefaultLogLevel |-> level]

(***************************************************************************)
(* Stunner.GetConfig (src/config.go:110-133).                              *)
(***************************************************************************)
GetAdmin == adminM[AdminKey]

GetAuth == authM[AuthKey]

GetListener(name) == listenerM[name]

GetCluster(name) == clusterM[name]

ListenerSnapshot ==
    LET listeners == Keys(listenerM)
    IN  [i \in 1..Len(listeners) |-> GetListener(listeners[i])]

ClusterSnapshot ==
    LET clusters == Keys(clusterM)
    IN  [i \in 1..Len(clusters) |-> GetCluster(clusters[i])]

\* Defined when the daemon holds its admin and auth objects.
GetConfig ==
    [Admin     |-> GetAdmin,
     Auth      |-> GetAuth,
     Listeners |-> ListenerSnapshot,
     Clusters  |-> ClusterSnapshot]

(***************************************************************************)
(* Stunner.Reconcile (src/config.go:136-243).                              *)
(***************************************************************************)
\* req.Validate(), by its outcome.
Validate(ok) == IF ok THEN Nil ELSE ErrInvalidConf

\* A Reconcile that goes on whatever Validate returned.
ValidationFailed_Ignored(err) == FALSE

\* if err := req.Validate(); err != nil { return err }
ValidationFailed(err) == err # Nil

\* A Reconcile that starts with the restart flag raised.
RestartInit_Raised == TRUE

\* restart := false
RestartInit == FALSE

\* A stage that overwrites the flag instead of raising it.
RestartAfter_Overwritten(rst, err) == err = ErrRestartRequired

\* if err == v1alpha1.ErrRestartRequired { restart = true }
RestartAfter(rst, err) == rst \/ err = ErrRestartRequired

\* A manager's failure counts for nothing once a restart is recorded.
ManagerFatal_AfterRestart(err) ==
    err # Nil /\ err # ErrRestartRequired /\ ~restart

\* the else branch: any other error of a manager is fatal
ManagerFatal(err) == err # Nil /\ err # ErrRestartRequired

\* fmt.Errorf("could not reconcile <kind> config: %s", err.Error())
WrapErr(kind, err) == "could not reconcile " \o kind \o " config: " \o err

\* if err != nil && err != v1alpha1.ErrRestartRequired { return err }
FactoryFatal(err) == err # Nil /\ err # ErrRestartRequired

\* A factory loop that wraps the error as the manager branches do.
FactoryFailure_Wrapped(err) == WrapErr("object", err)

\* return err, in a factory loop
FactoryFailure(err) == err

\* A loop that stops after its first iteration.
LoopDone_AfterFirst(rest) == TRUE

\* for _, c := range toConstruct: the loop ends when nothing is left
LoopDone(rest) == rest = << >>

\* An admin loop that builds the object and never registers it.
AdminUpsert_Dropped(o) == adminM

\* s.adminManager.Upsert(o)
AdminUpsert(o) == Upsert(adminM, o)

\* s.authManager.Upsert(o)
AuthUpsert(o) == Upsert(authM, o)

\* A listener loop that builds the object and never registers it.
ListenerUpsert_Dropped(o) == listenerM

\* s.listenerManager.Upsert(o)
ListenerUpsert(o) == Upsert(listenerM, o)

\* A cluster loop that builds the object and never registers it.
ClusterUpsert_Dropped(o) == clusterM

\* s.clusterManager.Upsert(o)
ClusterUpsert(o) == Upsert(clusterM, o)

\* A listener loop without the forced restart.
RestartAfterNewListener_Kept(rst) == rst

\* restart = true after listenerManager.Upsert: new listeners need a restart
RestartAfterNewListener(rst) == TRUE

\* A check that is off by one.
NoKeys_OffByOne(m) == Len(Keys(m)) <= 1

\* len(manager.Keys()) == 0
NoKeys(m) == Len(Keys(m)) = 0

WarnListeners == "running with no listeners"

WarnClusters == "running with no clusters: received traffic will be dropped"

\* A Reconcile that drops the flag at the end.
Aggregate_Dropped(rst) == Nil

\* if restart { return ErrRestartRequired }; return nil
Aggregate(rst) == IF rst THEN ErrRestartRequired ELSE Nil

\* How a desired list relates to the manager it is handed to: the same as
\* the manager's snapshot, differing in the admin log level only, or other.
Relation(confs, m, snapshot) ==
    IF confs = snapshot THEN "same"
    ELSE IF /\ Len(confs) = 1 /\ Len(snapshot) = 1
            /\ HotOnly(snapshot[1], confs[1])
         THEN "loglevel"
         ELSE "other"

Combine(r, s) ==
    CASE r = "other" \/ s = "other" -> "other"
      [] r = "loglevel" \/ s = "loglevel" -> "loglevel"
      [] OTHER -> "same"

SingletonSnapshot(m, key) == IF key \in DOMAIN m THEN << m[key] >> ELSE << >>

Init ==
    /\ adminM = NoObjects
    /\ authM = NoObjects
    /\ listenerM = NoObjects
    /\ clusterM = NoObjects
    /\ logger = NewLoggerFactory(DefaultLogLevel)
    /\ pc = "idle"
    /\ valid = TRUE
    /\ reqNoListeners = FALSE
    /\ restart = FALSE
    /\ conf = << >>
    /\ todo = << >>
    /\ verdict = NoVerdict
    /\ warnings = {}
    /\ pre = NoObjects
    /\ built = << >>
    /\ invoked = {}
    /\ signalled = "none"
    /\ novel = TRUE
    /\ rel = "same"
    /\ raised = NoRaise
    /\ sentinel = FALSE
    /\ merr = Nil
    /\ gpc = "idle"
    /\ gListeners = << >>
    /\ gClusters = << >>
    /\ gConf = NoConf
    /\ gRet = NoConf
    /\ gSeen = NoSeen

\* Positions of a GetConfig call between its first statement and its return.
InGetConfig == {"keys", "admin", "auth", "listeners", "clusters", "return"}

\* History: a GetConfig call in progress sees the listener and cluster
\* managers as this step leaves them.
Observed ==
    gSeen' = IF gpc \in InGetConfig
             THEN [listener |-> gSeen.listener \cup {listenerM'},
                   cluster  |-> gSeen.cluster \cup {clusterM'}]
             ELSE gSeen

\* Lines 136-144: the call starts, the request is validated.
ReconcileValidate ==
    /\ pc = "idle"
    /\ \E ok \in BOOLEAN, empty \in BOOLEAN :
        /\ valid' = ok
        /\ reqNoListeners' = empty
        /\ IF ValidationFailed(Validate(ok))
           THEN /\ verdict' = Validate(ok)
                /\ pc' = "done"
                /\ raised' = [from |-> "Validate", err |-> Validate(ok)]
           ELSE /\ verdict' = NoVerdict
                /\ pc' = "admin"
                /\ raised' = NoRaise
    /\ restart' = RestartInit
    /\ UNCHANGED << adminM, authM, listenerM, clusterM, logger, conf, todo,
                    warnings, pre, built, invoked, signalled, novel, rel,
                    sentinel, merr, gvars >>

\* A manager's Reconcile and the error handling after it, for one stage.
\* m is the manager, confs the desired list, r the result of Reconcile.
StageReconcile(kind, m, confs, r, call, loop, next, snapshot) ==
    /\ conf' = confs
    /\ pre' = m
    /\ built' = << >>
    /\ invoked' = invoked \cup {call}
    /\ rel' = Combine(rel, Relation(confs, m, snapshot))
    /\ merr' = r.err
    /\ IF ManagerFatal(r.err)
       THEN /\ verdict' = WrapErr(kind, r.err)
            /\ raised' = [from |-> call, err |-> r.err]
            /\ pc' = "done"
            /\ todo' = << >>
            /\ UNCHANGED << restart, signalled >>
       ELSE /\ restart' = RestartAfter(restart, r.err)
            /\ signalled' = IF r.err = ErrRestartRequired THEN kind
                            ELSE signalled
            /\ todo' = r.new
            /\ pc' = IF LoopDone(r.new) THEN next ELSE loop
            /\ UNCHANGED << verdict, raised >>

\* Lines 146-154: adminManager.Reconcile([]Config{&req.Admin}).
ReconcileAdmin ==
    /\ pc = "admin"
    /\ \E a \in AdminConfs : \E upd \in UpdateChoices(adminM, << a >>) :
        LET r == ManagerReconcile(adminM, << a >>, upd)
        IN  /\ adminM' = r.objects
            /\ StageReconcile("admin", adminM, << a >>, r,
                              "adminManager.Reconcile", "adminNew", "rebind",
                              SingletonSnapshot(adminM, AdminKey))
    /\ UNCHANGED << authM, listenerM, clusterM, logger, valid,
                    reqNoListeners, warnings, novel,
                    sentinel, gvars >>

\* One iteration of a factory loop: the bookkeeping common to the four.
FactoryStep(err, factory, upsert, loop, next) ==
    /\ built' = Append(built, Head(todo).Name)
    /\ sentinel' = (sentinel \/ err = ErrRestartRequired)
    /\ UNCHANGED merr
    /\ IF FactoryFatal(err)
       THEN /\ verdict' = FactoryFailure(err)
            /\ raised' = [from |-> factory, err |-> err]
            /\ pc' = "done"
            /\ invoked' = invoked \cup {factory}
            /\ UNCHANGED todo
       ELSE /\ todo' = Tail(todo)
            /\ pc' = IF LoopDone(Tail(todo)) THEN next ELSE loop
            /\ invoked' = invoked \cup {factory, upsert}
            /\ UNCHANGED << verdict, raised >>

\* Lines 156-162: object.NewAdmin and adminManager.Upsert.
NewAdmin ==
    /\ pc = "adminNew"
    /\ \E err \in FactoryOutcomes :
        /\ FactoryStep(err, "NewAdmin", "adminManager.Upsert",
                       "adminNew", "rebind")
        /\ adminM' = IF FactoryFatal(err) THEN adminM
                     ELSE AdminUpsert(Head(todo))
    /\ UNCHANGED << authM, listenerM, clusterM, logger, valid,
                    reqNoListeners, restart, conf, warnings, pre, signalled,
                    novel, rel,
                    gvars >>

\* A rebind to the default level, whatever the admin object says.
RebindLevel_Default == DefaultLogLevel

\* A rebind that keeps the level the logger already has.
RebindLevel_Kept == logger.DefaultLogLevel

\* The level the logger is rebound to: s.GetAdmin().LogLevel
RebindLevel == GetAdmin.LogLevel

\* Lines 163-164: the logger is rebound to the admin object's log level.
RebindLogger ==
    /\ pc = "rebind"
    /\ logger' = NewLoggerFactory(RebindLevel)
    /\ pc' = "auth"
    /\ conf' = << >>
    /\ pre' = NoObjects
    /\ built' = << >>
    /\ UNCHANGED << adminM, authM, listenerM, clusterM, valid,
                    reqNoListeners, restart, todo, verdict, warnings,
                    invoked, signalled, novel, rel, raised,
                    sentinel, merr, gvars >>

\* Lines 166-174: authManager.Reconcile([]Config{&req.Auth}).
ReconcileAuth ==
    /\ pc = "auth"
    /\ \E a \in AuthConfs : \E upd \in UpdateChoices(authM, << a >>) :
        LET r == ManagerReconcile(authM, << a >>, upd)
        IN  /\ authM' = r.objects
            /\ StageReconcile("auth", authM, << a >>, r,
                              "authManager.Reconcile", "authNew", "listener",
                              SingletonSnapshot(authM, AuthKey))
    /\ UNCHANGED << adminM, listenerM, clusterM, logger, valid,
                    reqNoListeners, warnings, novel,
                    sentinel, gvars >>

\* Lines 176-182: object.NewAuth and authManager.Upsert.
NewAuth ==
    /\ pc = "authNew"
    /\ \E err \in FactoryOutcomes :
        /\ FactoryStep(err, "NewAuth", "authManager.Upsert",
                       "authNew", "listener")
        /\ authM' = IF FactoryFatal(err) THEN authM
                    ELSE AuthUpsert(Head(todo))
    /\ UNCHANGED << adminM, listenerM, clusterM, logger, valid,
                    reqNoListeners, restart, conf, warnings, pre, signalled,
                    novel, rel,
                    gvars >>

\* Lines 184-196: lconf is built and handed to listenerManager.Reconcile.
ReconcileListener ==
    /\ pc = "listener"
    /\ \E lconf \in ListenerConfLists :
       \E upd \in UpdateChoices(listenerM, lconf) :
        LET r == ManagerReconcile(listenerM, lconf, upd)
        IN  /\ reqNoListeners <=> (Len(lconf) = 0)
            /\ listenerM' = r.objects
            /\ StageReconcile("listener", listenerM, lconf, r,
                              "listenerManager.Reconcile", "listenerNew",
                              "lwarn", ListenerSnapshot)
            /\ novel' = (novel /\ ConfNames(lconf) \cap DOMAIN listenerM = {})
    /\ UNCHANGED << adminM, authM, clusterM, logger, valid, reqNoListeners,
                    warnings,
                    sentinel, gcall >>
    /\ Observed

\* A listener loop that notes a fatal factory error and goes on with the next
\* entry instead of returning.
NewListener_KeepsGoing ==
    /\ pc = "listenerNew"
    /\ \E err \in FactoryOutcomes :
        /\ built' = Append(built, Head(todo).Name)
        /\ sentinel' = (sentinel \/ err = ErrRestartRequired)
        /\ UNCHANGED merr
        /\ todo' = Tail(todo)
        /\ pc' = IF LoopDone(Tail(todo)) THEN "lwarn" ELSE "listenerNew"
        /\ IF FactoryFatal(err)
           THEN /\ raised' = [from |-> "NewListener", err |-> err]
                /\ invoked' = invoked \cup {"NewListener"}
                /\ UNCHANGED << listenerM, restart, signalled >>
           ELSE /\ invoked' = invoked \cup {"NewListener",
                                            "listenerManager.Upsert"}
                /\ listenerM' = ListenerUpsert(Head(todo))
                /\ restart' = RestartAfterNewListener(restart)
                /\ signalled' = "newListener"
                /\ UNCHANGED raised
    /\ UNCHANGED << adminM, authM, clusterM, logger, valid, reqNoListeners,
                    conf, verdict, warnings, pre, novel, rel, gcall >>
    /\ Observed

\* Lines 198-206: object.NewListener, listenerManager.Upsert, restart = true.
NewListener ==
    /\ pc = "listenerNew"
    /\ \E err \in FactoryOutcomes :
        /\ FactoryStep(err, "NewListener", "listenerManager.Upsert",
                       "listenerNew", "lwarn")
        /\ IF FactoryFatal(err)
           THEN UNCHANGED << listenerM, restart, signalled >>
           ELSE /\ listenerM' = ListenerUpsert(Head(todo))
                /\ restart' = RestartAfterNewListener(restart)
                /\ signalled' = "newListener"
    /\ UNCHANGED << adminM, authM, clusterM, logger, valid, reqNoListeners,
                    conf, warnings, pre, novel, rel,
                    gcall >>
    /\ Observed

\* Lines 208-210: the warning logged when no listener is left.
WarnNoListeners ==
    /\ pc = "lwarn"
    /\ warnings' = IF NoKeys(listenerM)
                   THEN warnings \cup {WarnListeners}
                   ELSE warnings
    /\ pc' = "cluster"
    /\ conf' = << >>
    /\ pre' = NoObjects
    /\ built' = << >>
    /\ UNCHANGED << adminM, authM, listenerM, clusterM, logger, valid,
                    reqNoListeners, restart, todo, verdict, invoked,
                    signalled, novel, rel, raised,
                    sentinel, merr, gvars >>

\* Lines 212-224: cconf is built and handed to clusterManager.Reconcile.
ReconcileCluster ==
    /\ pc = "cluster"
    /\ \E cconf \in ClusterConfLists :
       \E upd \in UpdateChoices(clusterM, cconf) :
        LET r == ManagerReconcile(clusterM, cconf, upd)
        IN  /\ clusterM' = r.objects
            /\ StageReconcile("cluster", clusterM, cconf, r,
                              "clusterManager.Reconcile", "clusterNew",
                              "cwarn", ClusterSnapshot)
            /\ novel' = (novel /\ ConfNames(cconf) \cap DOMAIN clusterM = {})
    /\ UNCHANGED << adminM, authM, listenerM, logger, valid, reqNoListeners,
                    warnings,
                    sentinel, gcall >>
    /\ Observed

\* A cluster loop that tries an entry again when its factory fails.
NewCluster_Retries ==
    /\ pc = "clusterNew"
    /\ \E err \in FactoryOutcomes :
        /\ built' = Append(built, Head(todo).Name)
        /\ sentinel' = (sentinel \/ err = ErrRestartRequired)
        /\ UNCHANGED merr
        /\ IF FactoryFatal(err)
           THEN /\ invoked' = invoked \cup {"NewCluster"}
                /\ UNCHANGED << todo, pc, clusterM >>
           ELSE /\ invoked' = invoked \cup {"NewCluster",
                                            "clusterManager.Upsert"}
                /\ todo' = Tail(todo)
                /\ pc' = IF LoopDone(Tail(todo)) THEN "cwarn"
                         ELSE "clusterNew"
                /\ clusterM' = ClusterUpsert(Head(todo))
    /\ UNCHANGED << adminM, authM, listenerM, logger, valid, reqNoListeners,
                    restart, conf, verdict, warnings, pre, signalled, novel,
                    rel, raised, gcall >>
    /\ Observed

\* Lines 226-232: object.NewCluster and clusterManager.Upsert.
NewCluster ==
    /\ pc = "clusterNew"
    /\ \E err \in FactoryOutcomes :
        /\ FactoryStep(err, "NewCluster", "clusterManager.Upsert",
                       "clusterNew", "cwarn")
        /\ clusterM' = IF FactoryFatal(err) THEN clusterM
                       ELSE ClusterUpsert(Head(todo))
    /\ UNCHANGED << adminM, authM, listenerM, logger, valid, reqNoListeners,
                    restart, conf, warnings, pre, signalled, novel, rel,
                    gcall >>
    /\ Observed

\* Lines 234-243: the warning logged when no cluster is left, and the verdict.
WarnNoClustersAndReturn ==
    /\ pc = "cwarn"
    /\ warnings' = IF NoKeys(clusterM)
                   THEN warnings \cup {WarnClusters}
                   ELSE warnings
    /\ verdict' = Aggregate(restart)
    /\ pc' = "done"
    /\ UNCHANGED << adminM, authM, listenerM, clusterM, logger, valid,
                    reqNoListeners, restart, conf, todo, pre, built, invoked,
                    signalled, novel, rel, raised,
                    sentinel, merr, gvars >>

\* The caller has the verdict; the daemon is ready for the next call.
Return ==
    /\ pc = "done"
    /\ pc' = "idle"
    /\ valid' = TRUE
    /\ reqNoListeners' = FALSE
    /\ restart' = FALSE
    /\ conf' = << >>
    /\ todo' = << >>
    /\ verdict' = NoVerdict
    /\ warnings' = {}
    /\ pre' = NoObjects
    /\ built' = << >>
    /\ invoked' = {}
    /\ signalled' = "none"
    /\ novel' = TRUE
    /\ rel' = "same"
    /\ raised' = NoRaise
    /\ sentinel' = FALSE
    /\ merr' = Nil
    /\ UNCHANGED << adminM, authM, listenerM, clusterM, logger,
                    gvars >>

Next ==
    \/ ReconcileValidate
    \/ ReconcileAdmin
    \/ NewAdmin
    \/ RebindLogger
    \/ ReconcileAuth
    \/ NewAuth
    \/ ReconcileListener
    \/ NewListener
    \/ WarnNoListeners
    \/ ReconcileCluster
    \/ NewCluster
    \/ WarnNoClustersAndReturn
    \/ Return

Spec == Init /\ [][Next]_vars

(***************************************************************************)
(* Stunner.GetConfig, statement by statement (src/config.go:110-133), as   *)
(* another goroutine runs it.                                              *)
(***************************************************************************)
\* A loop that reads the first name in every iteration.
LoopName_First(keys, out) == keys[1]

\* for i, name := range keys: the name of the iteration that fills out[i]
LoopName(keys, out) == keys[Len(out) + 1]

\* The position after the struct literal or a loop: the next loop that has
\* an iteration to run, or the return.
AfterLoop(pending) ==
    IF pending = << >> THEN "return" ELSE "clusters"

\* Line 113: listeners := s.listenerManager.Keys()
GetConfigListenerKeys ==
    /\ gpc \in {"idle", "done"}
    /\ gpc' = "keys"
    /\ gListeners' = Keys(listenerM)
    /\ gClusters' = << >>
    /\ gConf' = NoConf
    /\ gSeen' = [listener |-> {listenerM}, cluster |-> {clusterM}]
    /\ UNCHANGED << rvars, gRet >>

\* Line 114: clusters := s.clusterManager.Keys()
GetConfigClusterKeys ==
    /\ gpc = "keys"
    /\ gpc' = "admin"
    /\ gClusters' = Keys(clusterM)
    /\ UNCHANGED << rvars, gListeners, gConf, gRet, gSeen >>

\* Line 118: Admin: *s.GetAdmin().GetConfig(); without an admin object the
\* call panics.
GetConfigAdmin ==
    /\ gpc = "admin"
    /\ IF AdminKey \in DOMAIN adminM
       THEN /\ gConf' = [Admin |-> GetAdmin]
            /\ gpc' = "auth"
       ELSE /\ gpc' = "panic"
            /\ UNCHANGED gConf
    /\ UNCHANGED << rvars, gListeners, gClusters, gRet, gSeen >>

\* Lines 119-122: Auth: *s.GetAuth().GetConfig(), and the two slices.
GetConfigAuth ==
    /\ gpc = "auth"
    /\ IF AuthKey \in DOMAIN authM
       THEN /\ gConf' = [Admin |-> gConf.Admin, Auth |-> GetAuth,
                         Listeners |-> << >>, Clusters |-> << >>]
            /\ gpc' = IF gListeners = << >> THEN AfterLoop(gClusters)
                      ELSE "listeners"
       ELSE /\ gpc' = "panic"
            /\ UNCHANGED gConf
    /\ UNCHANGED << rvars, gListeners, gClusters, gRet, gSeen >>

\* Lines 124-126, one iteration:
\* c.Listeners[i] = *s.GetListener(name).GetConfig(); a name that resolves to
\* no object is a nil dereference.
GetConfigListener ==
    /\ gpc = "listeners"
    /\ LET name == LoopName(gListeners, gConf.Listeners)
       IN  IF name \in DOMAIN listenerM
           THEN /\ gConf' = [gConf EXCEPT
                               !.Listeners = Append(@, GetListener(name))]
                /\ gpc' = IF Len(gConf.Listeners) + 1 = Len(gListeners)
                          THEN AfterLoop(gClusters)
                          ELSE "listeners"
           ELSE /\ gpc' = "panic"
                /\ UNCHANGED gConf
    /\ UNCHANGED << rvars, gListeners, gClusters, gRet, gSeen >>

\* Lines 128-130, one iteration:
\* c.Clusters[i] = *s.GetCluster(name).GetConfig()
GetConfigCluster ==
    /\ gpc = "clusters"
    /\ LET name == LoopName(gClusters, gConf.Clusters)
       IN  IF name \in DOMAIN clusterM
           THEN /\ gConf' = [gConf EXCEPT
                               !.Clusters = Append(@, GetCluster(name))]
                /\ gpc' = IF Len(gConf.Clusters) + 1 = Len(gClusters)
                          THEN "return"
                          ELSE "clusters"
           ELSE /\ gpc' = "panic"
                /\ UNCHANGED gConf
    /\ UNCHANGED << rvars, gListeners, gClusters, gRet, gSeen >>

\* Line 132: return &c
GetConfigReturn ==
    /\ gpc = "return"
    /\ gpc' = "done"
    /\ gRet' = gConf
    /\ UNCHANGED << rvars, gListeners, gClusters, gConf, gSeen >>

\* The caller lets go of the configuration it was returned.
GetConfigRelease ==
    /\ gpc = "done"
    /\ gpc' = "idle"
    /\ gListeners' = << >>
    /\ gClusters' = << >>
    /\ gConf' = NoConf
    /\ gRet' = NoConf
    /\ gSeen' = NoSeen
    /\ UNCHANGED rvars

\* GetConfig is called between reconciliations only: no Reconcile call is in
\* flight while it runs or while its caller holds what it returned.
SerialNext ==
    \/ gpc = "idle" /\ ReconcileValidate
    \/ ReconcileAdmin
    \/ NewAdmin
    \/ RebindLogger
    \/ ReconcileAuth
    \/ NewAuth
    \/ ReconcileListener
    \/ NewListener
    \/ WarnNoListeners
    \/ ReconcileCluster
    \/ NewCluster
    \/ WarnNoClustersAndReturn
    \/ Return
    \/ pc = "idle" /\ GetConfigListenerKeys
    \/ GetConfigClusterKeys
    \/ GetConfigAdmin
    \/ GetConfigAuth
    \/ GetConfigListener
    \/ GetConfigCluster
    \/ GetConfigReturn
    \/ GetConfigRelease

SpecSerial == Init /\ [][SerialNext]_vars

\* The daemon is up: no GetConfig call has panicked.
Up == gpc # "panic"

\* The listener or the cluster stage of a Reconcile call is under way.
InLateStage ==
    pc \in {"listener", "listenerNew", "lwarn", "cluster", "clusterNew", "cwarn"}

\* GetConfig runs in its own goroutine, concurrently with Reconcile.  Of the
\* interleavings of the two, these are followed: a GetConfig call begins
\* between two Reconcile calls or while the listener or cluster stage of one
\* is under way, that Reconcile call goes on while GetConfig runs, and the
\* next one begins after the caller of GetConfig has released what it got.
ConcurrentNext ==
    \/ gpc = "idle" /\ ReconcileValidate
    \/ Up /\ ReconcileAdmin
    \/ Up /\ NewAdmin
    \/ Up /\ RebindLogger
    \/ Up /\ ReconcileAuth
    \/ Up /\ NewAuth
    \/ Up /\ ReconcileListener
    \/ Up /\ NewListener
    \/ Up /\ WarnNoListeners
    \/ Up /\ ReconcileCluster
    \/ Up /\ NewCluster
    \/ Up /\ WarnNoClustersAndReturn
    \/ Up /\ Return
    \/ (pc = "idle" \/ InLateStage) /\ GetConfigListenerKeys
    \/ GetConfigClusterKeys
    \/ GetConfigAdmin
    \/ GetConfigAuth
    \/ GetConfigListener
    \/ GetConfigCluster
    \/ GetConfigReturn
    \/ GetConfigRelease

SpecConcurrent == Init /\ [][ConcurrentNext]_vars

(***************************************************************************)
(* Properties.                                                             *)
(***************************************************************************)
\* The call returned nil or RestartRequired: it met no fatal error.
NonFatal == pc = "done" /\ verdict \in {Nil, ErrRestartRequired}

HasSingletons == AdminKey \in DOMAIN adminM /\ AuthKey \in DOMAIN authM

FactoryCalls == {"NewAdmin", "NewAuth", "NewListener", "NewCluster"}

UpsertCalls == {"adminManager.Upsert", "authManager.Upsert",
                "listenerManager.Upsert", "clusterManager.Upsert"}

Range(s) == { s[i] : i \in 1..Len(s) }

\* C1: a request whose Validate() fails makes Reconcile return the
\* validation error at once; the four managers (and GetConfig(), where it is
\* defined) are the same before and after the call, and no manager
\* Reconcile, factory or Upsert is invoked.
C1_InvalidRejected ==
    [][ (pc = "idle" /\ ~valid')
        => /\ pc' = "done"
           /\ verdict' = ErrInvalidConf
           /\ Managers' = Managers
           /\ HasSingletons => GetConfig' = GetConfig
           /\ invoked' = {} ]_vars

C1_Witness ==
    /\ pc = "done"
    /\ ~valid
    /\ verdict = ErrInvalidConf
    /\ HasSingletons
    /\ listenerM # NoObjects
    /\ clusterM # NoObjects

\* C2: a call that met no fatal error returns RestartRequired if some
\* manager's Reconcile returned RestartRequired or a listener was newly
\* constructed, and nil otherwise; a signal of an early stage is not lost.
C2_RestartAggregated ==
    NonFatal => (verdict = ErrRestartRequired <=> signalled # "none")

\* The admin stage signalled, no later stage did, no listener was built.
C2_Witness ==
    /\ NonFatal
    /\ signalled = "admin"
    /\ verdict = ErrRestartRequired
    /\ "NewListener" \notin invoked

\* C3: a call that met no fatal error and in which the listener manager
\* reported a listener to construct returns RestartRequired.
C3_NewListenerForcesRestart ==
    (NonFatal /\ "NewListener" \in invoked) => verdict = ErrRestartRequired

C3_Witness ==
    /\ NonFatal
    /\ "NewListener" \in invoked
    /\ signalled = "newListener"
    /\ verdict = ErrRestartRequired

\* C4, as stated, for the requests that list at least one name: a call that
\* met no fatal error, for a valid request in which every listener name and
\* every cluster name is new (requests with new clusters and no listener
\* included), returns RestartRequired.
C4_Original ==
    (NonFatal /\ valid /\ novel
        /\ (~reqNoListeners \/ "NewCluster" \in invoked))
        => verdict = ErrRestartRequired

\* C4, amended: the same for the requests that list at least one listener.
C4_NovelListenersForceRestart ==
    (NonFatal /\ valid /\ novel /\ ~reqNoListeners)
        => verdict = ErrRestartRequired

C4_Witness ==
    /\ NonFatal
    /\ novel
    /\ ~reqNoListeners
    /\ "NewListener" \in invoked
    /\ "NewCluster" \in invoked
    /\ verdict = ErrRestartRequired

ReconcileCalls == {"adminManager.Reconcile", "authManager.Reconcile",
                   "listenerManager.Reconcile", "clusterManager.Reconcile"}

\* C5: a call with the configuration GetConfig() returns (rel = "same" once
\* the four fields are read) returns nil, invokes the four managers'
\* Reconcile and nothing else, and no step of it changes a manager.  The
\* state it leaves is the state it found, so a second such call does the same.
C5_Idempotent ==
    /\ [](pc = "done" /\ valid /\ rel = "same"
            => /\ verdict = Nil
               /\ invoked = ReconcileCalls
               /\ HasSingletons)
    /\ [][rel' = "same" => Managers' = Managers]_vars

C5_Witness ==
    /\ pc = "done"
    /\ valid
    /\ rel = "same"
    /\ verdict = Nil
    /\ listenerM # NoObjects
    /\ clusterM # NoObjects

\* The manager whose Reconcile was invoked last.
LastManager ==
    CASE "clusterManager.Reconcile" \in invoked -> clusterM
      [] "listenerManager.Reconcile" \in invoked -> listenerM
      [] "authManager.Reconcile" \in invoked -> authM
      [] OTHER -> adminM

\* C6, as stated, for the manager invoked last: after the call returns,
\* whatever the verdict, its keys are the identities of its desired list.
C6_Original ==
    (pc = "done" /\ invoked # {}) => DOMAIN LastManager = ConfNames(conf)

\* C6, amended: a manager whose stage completed (its Reconcile and every
\* factory call of its loop returned nil or RestartRequired) holds exactly
\* the identities of its desired list, and no later step of the call changes
\* it.
C6_CompletedStageHoldsDesired ==
    /\ [](/\ pc = "rebind" => DOMAIN adminM = ConfNames(conf)
          /\ pc = "listener" => DOMAIN authM = ConfNames(conf)
          /\ pc = "lwarn" => DOMAIN listenerM = ConfNames(conf)
          /\ (pc = "cwarn" \/ NonFatal) => DOMAIN clusterM = ConfNames(conf))
    /\ [][/\ pc \notin {"admin", "adminNew"} => adminM' = adminM
          /\ pc \notin {"auth", "authNew"} => authM' = authM
          /\ pc \notin {"listener", "listenerNew"} => listenerM' = listenerM
          /\ pc \notin {"cluster", "clusterNew"} => clusterM' = clusterM]_vars

\* The listener stage completed after two listeners were built.
C6_Witness ==
    /\ pc = "lwarn"
    /\ Len(built) = 2
    /\ DOMAIN listenerM = ConfNames(conf)

C8_ClusterFactoryFailure ==
    /\ [](pc = "done" /\ raised.from = "NewCluster"
            => /\ verdict = raised.err
               /\ verdict \in FactoryErrs
               /\ HasSingletons
               /\ logger = NewLoggerFactory(GetAdmin.LogLevel)
               /\ "listenerManager.Upsert" \in invoked
                    => listenerM # NoObjects)
    /\ [][(pc = "clusterNew" /\ pc' = "done")
            => /\ raised'.from = "NewCluster"
               /\ Managers' = Managers
               /\ logger' = logger]_vars

\* The cluster factory failed in a call whose listener stage had built and
\* registered a listener, which is still there.
C8_Witness ==
    /\ pc = "done"
    /\ raised.from = "NewCluster"
    /\ verdict \in FactoryErrs
    /\ "listenerManager.Upsert" \in invoked
    /\ Cardinality(DOMAIN listenerM) = 1

\* C9: a call whose request differs from the current state in the admin log
\* level only rebinds the logger to the requested level (line 163) and
\* returns nil with that logger active.
C9_LogLevelOnly ==
    /\ [](pc = "done" /\ valid /\ rel = "loglevel"
            => /\ verdict = Nil
               /\ logger = NewLoggerFactory(GetAdmin.LogLevel))
    /\ [][(pc = "rebind" /\ rel = "loglevel")
            => /\ conf[1].LogLevel # pre[AdminKey].LogLevel
               /\ logger' = NewLoggerFactory(conf[1].LogLevel)
               /\ logger' # logger]_vars

C9_Witness ==
    /\ pc = "done"
    /\ valid
    /\ rel = "loglevel"
    /\ verdict = Nil
    /\ logger # NewLoggerFactory(DefaultLogLevel)
    /\ listenerM # NoObjects

\* The listener stage of the call is over.
PastListeners == pc \in {"cluster", "clusterNew", "cwarn"}
                    \/ (pc = "done" /\ "clusterManager.Reconcile" \in invoked)

\* C10, as stated: after a call for a request that lists no listener, the
\* listener manager is empty and the no-listeners warning was logged.
C10_Original ==
    (pc = "done" /\ reqNoListeners)
        => DOMAIN listenerM = {} /\ WarnListeners \in warnings

\* C10, amended: in a call for a request that lists no listener, once the
\* listener stage is over (the request is valid, the admin and auth stages
\* met no fatal error) the listener manager is empty and the warning was
\* logged; the warning step changes neither the verdict nor the restart flag
\* and hands over to the cluster stage; a cluster stage that completes
\* leaves exactly the desired clusters; and the no-clusters warning is
\* logged exactly when the cluster stage completes with no cluster left.
C10_NoListenersWarning ==
    /\ [](/\ (PastListeners /\ reqNoListeners)
                => DOMAIN listenerM = {} /\ WarnListeners \in warnings
          /\ PastListeners
                => (WarnListeners \in warnings <=> DOMAIN listenerM = {})
          /\ NonFatal => DOMAIN clusterM = ConfNames(conf)
          /\ WarnClusters \in warnings <=> (NonFatal /\ DOMAIN clusterM = {}))
    /\ [][pc = "lwarn"
            => /\ pc' = "cluster"
               /\ verdict' = verdict
               /\ restart' = restart
               /\ Managers' = Managers]_vars

\* No listener was desired, the warning was logged, and the cluster stage
\* went on to build a cluster.
C10_Witness ==
    /\ NonFatal
    /\ reqNoListeners
    /\ WarnListeners \in warnings
    /\ WarnClusters \notin warnings
    /\ "NewCluster" \in invoked
    /\ clusterM # NoObjects

\* C11: in a call that met no fatal error and in which a factory (admin,
\* auth, listener or cluster) returned RestartRequired for a new object, the
\* aggregate verdict is RestartRequired.  (The object is registered and the
\* call goes on: FactoryFatal excludes the sentinel.  Lines 158-161, 178-181
\* and 228-231 do not raise restart, so the verdict may be nil.)
C11_Original ==
    (NonFatal /\ sentinel) => verdict = ErrRestartRequired

\* The configurations a manager holds, in the order Keys() lists them.
Contents(m) == [i \in 1..Len(Keys(m)) |-> m[Keys(m)[i]]]

\* C12: with no Reconcile call in flight, no step of GetConfig changes a
\* manager or the logger; the configuration it returns holds the admin and
\* the auth object's configuration and, for the listeners and for the
\* clusters, one configuration per key of Keys(), in the order of Keys(); a
\* call on a daemon that holds its admin and auth objects does not panic;
\* and a call that follows another returns what that one returned.
C12_QuiescentSnapshot ==
    /\ [](/\ gpc = "done" =>
                /\ gRet.Admin = adminM[AdminKey]
                /\ gRet.Auth = authM[AuthKey]
                /\ Len(gRet.Listeners) = Len(Keys(listenerM))
                /\ \A i \in 1..Len(gRet.Listeners) :
                      /\ gRet.Listeners[i].Name = Keys(listenerM)[i]
                      /\ gRet.Listeners[i] = listenerM[Keys(listenerM)[i]]
                /\ Len(gRet.Clusters) = Len(Keys(clusterM))
                /\ \A i \in 1..Len(gRet.Clusters) :
                      /\ gRet.Clusters[i].Name = Keys(clusterM)[i]
                      /\ gRet.Clusters[i] = clusterM[Keys(clusterM)[i]]
          /\ gpc = "panic" => ~HasSingletons)
    /\ [][/\ gcall' # gcall => (Managers' = Managers /\ logger' = logger)
          /\ (gpc = "return" /\ gpc' = "done" /\ gRet # NoConf)
                => gRet' = gRet]_vars

\* A second call in a row has assembled, from two listeners and a cluster,
\* the configuration the first one returned.
C12_Witness ==
    /\ pc = "idle"
    /\ gpc = "return"
    /\ gRet # NoConf
    /\ gConf = gRet
    /\ Len(gConf.Listeners) = 2
    /\ Len(gConf.Clusters) = 1

\* C13: the list of listener configurations a GetConfig call returns is the
\* contents (keys and their configurations, in Keys() order) the listener
\* manager had at one instant of the call, and so is the list of cluster
\* configurations for the cluster manager, also when a Reconcile call runs
\* concurrently.  (Lines 113 and 125 read the keys and each configuration
\* at different instants, with nothing held in between.)
C13_Original ==
    [][(gpc = "return" /\ gpc' = "done")
        => /\ \E m \in gSeen.listener : gRet'.Listeners = Contents(m)
           /\ \E m \in gSeen.cluster : gRet'.Clusters = Contents(m)]_vars

\* C19: whenever GetConfig is about to read the configuration of a name it
\* got from listenerManager.Keys() or clusterManager.Keys(), the name still
\* resolves to an object of that manager, whatever a concurrent Reconcile call
\* has done since, so that GetConfig never dereferences a missing object.
C19_Original ==
    /\ gpc = "listeners"
          => LoopName(gListeners, gConf.Listeners) \in DOMAIN listenerM
    /\ gpc = "clusters"
          => LoopName(gClusters, gConf.Clusters) \in DOMAIN clusterM
    /\ gpc = "panic" => ~HasSingletons

\* The place of a call in the fixed order of Reconcile.
CallRank(call) ==
    CASE call = "Validate" -> 0
      [] call = "adminManager.Reconcile" -> 1
      [] call \in {"NewAdmin", "adminManager.Upsert"} -> 2
      [] call = "authManager.Reconcile" -> 3
      [] call \in {"NewAuth", "authManager.Upsert"} -> 4
      [] call = "listenerManager.Reconcile" -> 5
      [] call \in {"NewListener", "listenerManager.Upsert"} -> 6
      [] call = "clusterManager.Reconcile" -> 7
      [] call \in {"NewCluster", "clusterManager.Upsert"} -> 8

\* The call of the greatest place among those made so far.
LastCall ==
    IF invoked = {} THEN "Validate"
    ELSE CHOOSE call \in invoked :
            \A other \in invoked : CallRank(other) <= CallRank(call)

\* The place of a position of Reconcile in the same order.
PcRank ==
    CASE pc = "idle" -> 0
      [] pc = "admin" -> 1
      [] pc = "adminNew" -> 2
      [] pc = "rebind" -> 3
      [] pc = "auth" -> 4
      [] pc = "authNew" -> 5
      [] pc = "listener" -> 6
      [] pc = "listenerNew" -> 7
      [] pc = "lwarn" -> 8
      [] pc = "cluster" -> 9
      [] pc = "clusterNew" -> 10
      [] pc = "cwarn" -> 11
      [] pc = "done" -> 12

\* The manager a factory builds objects for.
ManagerOf(factory) ==
    CASE factory = "NewAdmin" -> adminM
      [] factory = "NewAuth" -> authM
      [] factory = "NewListener" -> listenerM
      [] factory = "NewCluster" -> clusterM

\* C14: Reconcile goes through admin, auth, listener, cluster in this order
\* (a manager's Reconcile is invoked only after those of the kinds before it,
\* and a manager changes only in the steps of its own stage), and the
\* step that meets a fatal error ends the call: it returns the
\* error, a failing factory step changes no manager and leaves its entry and
\* the entries after it unbuilt, nothing of a later place in the order was or
\* is invoked, and after the return no manager changes.  The entries built
\* before the failing one stay registered.
C14_FixedOrderAbort ==
    /\ [](/\ \A call \in invoked \cap ReconcileCalls :
                \A before \in ReconcileCalls :
                    CallRank(before) < CallRank(call) => before \in invoked
          /\ raised # NoRaise =>
                /\ pc = "done"
                /\ verdict \notin {Nil, ErrRestartRequired, NoVerdict}
                /\ \A call \in invoked : CallRank(call) <= CallRank(raised.from)
          /\ (pc = "done" /\ raised.from \in FactoryCalls) =>
                /\ todo # << >>
                /\ built[Len(built)] = Head(todo).Name
                /\ \A i \in 1..Len(todo) :
                      todo[i].Name \notin DOMAIN ManagerOf(raised.from)
                /\ \A i \in 1..(Len(built) - 1) :
                      built[i] \in DOMAIN ManagerOf(raised.from))
    /\ [][/\ (pc' # pc /\ pc' # "done" /\ pc # "done") => PcRank' > PcRank
          /\ adminM' # adminM => PcRank \in {1, 2}
          /\ authM' # authM => PcRank \in {4, 5}
          /\ listenerM' # listenerM => PcRank \in {6, 7}
          /\ clusterM' # clusterM => PcRank \in {9, 10}
          /\ (raised = NoRaise /\ raised' # NoRaise) =>
                /\ pc' = "done"
                /\ raised'.from \in FactoryCalls
                      => (Managers' = Managers /\ todo' = todo)
          /\ pc = "done" =>
                (pc' = "idle" /\ Managers' = Managers /\ logger' = logger)]_vars

\* The listener factory failed for the second of two new listeners: the
\* first one stays registered, the second one is not, and the cluster stage
\* was not entered.
C14_Witness ==
    /\ pc = "done"
    /\ raised.from = "NewListener"
    /\ Len(built) = 2
    /\ built[1] \in DOMAIN listenerM
    /\ built[2] \notin DOMAIN listenerM
    /\ "clusterManager.Reconcile" \notin invoked

\* C15: a call whose admin stage met no fatal error passes line 163 before
\* its auth stage starts, whether or not the admin stage recorded
\* RestartRequired: the logger is rebound to the log level of the admin
\* object the admin manager holds, and it is this logger that the auth,
\* listener and cluster stages hand to their factories, also in a call that
\* fails fatally later.  No other step changes the logger, so a call whose
\* admin stage fails fatally leaves it as it was.
C15_LoggerRebound ==
    /\ [](/\ (PcRank \in 4..11 \/ (pc = "done" /\ CallRank(LastCall) >= 3))
                => /\ AdminKey \in DOMAIN adminM
                   /\ logger = NewLoggerFactory(adminM[AdminKey].LogLevel)
          /\ (pc = "done" /\ raised.from \in
                    {"Validate", "adminManager.Reconcile", "NewAdmin"})
                => "authManager.Reconcile" \notin invoked)
    /\ [][/\ pc = "rebind" =>
                /\ pc' = "auth"
                /\ logger' = NewLoggerFactory(adminM[AdminKey].LogLevel)
                /\ adminM' = adminM
          /\ pc' = "auth" => pc = "rebind"
          /\ pc # "rebind" => logger' = logger]_vars

\* The admin object was built in this call with the TRACE level, so the
\* rebind changed the logger; the listener factory, which got that logger,
\* then failed fatally.
C15_Witness ==
    /\ pc = "done"
    /\ raised.from = "NewListener"
    /\ "NewAdmin" \in invoked
    /\ logger = NewLoggerFactory("all:TRACE")

\* C16: the admin and the auth manager hold nothing but the object under
\* their fixed key, whose configuration carries that key; an admin or auth
\* object the daemon holds is still held after every step, whatever the call
\* returns; and the admin object is there when line 163 reads it.
C16_Singletons ==
    /\ [](/\ DOMAIN adminM \subseteq {AdminKey}
          /\ DOMAIN authM \subseteq {AuthKey}
          /\ \A k \in DOMAIN adminM : adminM[k].Name = k
          /\ \A k \in DOMAIN authM : authM[k].Name = k
          /\ pc = "rebind" => Cardinality(DOMAIN adminM) = 1
          /\ pc = "listener" => Cardinality(DOMAIN authM) = 1)
    /\ [][/\ Cardinality(DOMAIN adminM) = 1 => Cardinality(DOMAIN adminM') = 1
          /\ Cardinality(DOMAIN authM) = 1 => Cardinality(DOMAIN authM') = 1
         ]_vars

\* The in-place update of the admin object failed fatally on a daemon that
\* holds both singletons: both are still there.
C16_Witness ==
    /\ pc = "done"
    /\ raised.from = "adminManager.Reconcile"
    /\ Cardinality(DOMAIN adminM) = 1
    /\ Cardinality(DOMAIN authM) = 1

\* The Reconcile call that is about to be made at a position, if any.
CallAt ==
    CASE pc = "admin" -> {"adminManager.Reconcile"}
      [] pc = "auth" -> {"authManager.Reconcile"}
      [] pc = "listener" -> {"listenerManager.Reconcile"}
      [] pc = "cluster" -> {"clusterManager.Reconcile"}
      [] OTHER -> {}

\* C17: within a call a manager's Reconcile is not invoked a second time (at
\* the position that invokes it, it has not been invoked yet, and no step
\* leads back to an earlier position), a factory is invoked once per entry
\* of toConstruct (the names it was invoked for are distinct, new, and among
\* the desired ones; each iteration takes one entry off the list), and a call
\* under way can always take a step, each of which moves it to a later
\* position or shortens the list of the loop it is in: it ends with a
\* verdict, after no more factory calls than the desired lists have entries.
C17_NoRetry ==
    /\ [](/\ CallAt \cap invoked = {}
          /\ \A i, j \in 1..Len(built) : i # j => built[i] # built[j]
          /\ Range(built) \subseteq ConfNames(conf) \ DOMAIN pre
          /\ Len(built) <= Len(conf)
          /\ pc \in {"adminNew", "authNew", "listenerNew", "clusterNew"}
                => todo # << >>
          /\ pc # "idle" => ENABLED Next
          /\ pc = "done" <=> verdict # NoVerdict)
    /\ [][pc # "done" =>
            \/ PcRank' > PcRank
            \/ PcRank' = PcRank /\ Len(todo') < Len(todo)]_vars

\* A call that built the admin object, the auth object, two listeners and a
\* cluster, one factory call each, has returned.
C17_Witness ==
    /\ NonFatal
    /\ {"NewAdmin", "NewAuth", "NewListener", "NewCluster"} \subseteq invoked
    /\ Cardinality(DOMAIN listenerM) = 2
    /\ Len(built) = 1
    /\ todo = << >>

\* A manager that holds a desired list exactly: its identities and, for each,
\* its configuration.
Desired(confs) == [k \in ConfNames(confs) |-> ConfOf(confs, k)]

\* C18: whatever state a call starts from (every state an aborted call left
\* behind included), a stage whose in-place updates all returned nil and
\* whose factory calls all returned leaves its manager holding exactly the
\* desired identities with the desired configurations, and no later step of
\* the call changes that manager: a valid call that meets no failure ends
\* with the four managers holding the request.
C18_Convergence ==
    /\ [](/\ (pc = "rebind" /\ merr = Nil) => adminM = Desired(conf)
          /\ (pc = "listener" /\ merr = Nil) => authM = Desired(conf)
          /\ (pc = "lwarn" /\ merr = Nil) => listenerM = Desired(conf)
          /\ ((pc = "cwarn" \/ NonFatal) /\ merr = Nil) =>
                clusterM = Desired(conf))
    /\ [][/\ pc \in {"rebind", "auth", "authNew", "listener", "listenerNew",
                     "lwarn", "cluster", "clusterNew", "cwarn"} =>
                adminM' = adminM
          /\ pc \in {"listener", "listenerNew", "lwarn", "cluster",
                     "clusterNew", "cwarn"} => authM' = authM
          /\ pc \in {"lwarn", "cluster", "clusterNew", "cwarn"} =>
                listenerM' = listenerM
          /\ pc \in {"cwarn", "done"} => Managers' = Managers]_vars

\* A call converged on a state an aborted call had left: the admin object
\* was there when the call began and the auth object was not, which only a
\* call that failed between the two stages leaves; this call built the auth
\* object and a cluster, updated nothing with a restart pending, and
\* returned.
C18_Witness ==
    /\ NonFatal
    /\ "NewAdmin" \notin invoked
    /\ "NewAuth" \in invoked
    /\ "NewCluster" \in invoked
    /\ merr = Nil
    /\ clusterM = Desired(conf)
    /\ clusterM # NoObjects

\* The kind of the manager a call belongs to.
KindOf(call) ==
    CASE CallRank(call) \in {1, 2} -> "admin"
      [] CallRank(call) \in {3, 4} -> "auth"
      [] CallRank(call) \in {5, 6} -> "listener"
      [] CallRank(call) \in {7, 8} -> "cluster"

\* The fatal errors Reconcile can return.
FatalErrors ==
    {ErrInvalidConf} \cup FactoryErrs
        \cup { WrapErr(kind, ErrUpdate) :
                 kind \in {"admin", "auth", "listener", "cluster"} }

\* C20: the verdict is nil, RestartRequired or a fatal error, and these are
\* three different things.  A call that met a failure (validation, a
\* manager's Reconcile answering something other than nil or RestartRequired,
\* a factory doing so) returns that failure, wrapped for a manager, whether
\* or not restart was recorded before; a call that met none returns
\* RestartRequired if restart is recorded and nil otherwise.  The step that
\* returns early with restart recorded returns neither nil nor
\* RestartRequired, and restart, once recorded, stays for the rest of the
\* call.
C20_FatalPrecedence ==
    /\ [](/\ verdict \in {NoVerdict, Nil, ErrRestartRequired} \cup FatalErrors
          /\ FatalErrors \cap {NoVerdict, Nil, ErrRestartRequired} = {}
          /\ pc = "done" => verdict # NoVerdict
          /\ (pc # "idle" /\ merr \notin {Nil, ErrRestartRequired}) =>
                /\ pc = "done"
                /\ verdict = WrapErr(KindOf(LastCall), merr)
          /\ (pc = "done" /\ raised # NoRaise) =>
                /\ verdict \in FatalErrors
                /\ verdict = IF raised.from \in ReconcileCalls
                             THEN WrapErr(KindOf(raised.from), raised.err)
                             ELSE raised.err
          /\ (pc = "done" /\ raised = NoRaise) =>
                verdict = IF restart THEN ErrRestartRequired ELSE Nil)
    /\ [][/\ (restart /\ pc # "cwarn" /\ pc' = "done") =>
                verdict' \in FatalErrors
          /\ (restart /\ pc' # "idle") => restart']_vars

\* A new listener was built, which recorded restart, and the cluster manager
\* then failed: the call returned the wrapped failure.
C20_Witness ==
    /\ pc = "done"
    /\ restart
    /\ signalled = "newListener"
    /\ raised.from = "clusterManager.Reconcile"
    /\ merr = ErrUpdate
    /\ verdict = WrapErr("cluster", ErrUpdate)

TypeOK ==
    /\ pc \in {"idle", "admin", "adminNew", "rebind", "auth", "authNew",
               "listener", "listenerNew", "lwarn", "cluster", "clusterNew",
               "cwarn", "done"}
    /\ DOMAIN adminM \subseteq {AdminKey}
    /\ DOMAIN authM \subseteq {AuthKey}
    /\ DOMAIN listenerM \subseteq ListenerNames
    /\ DOMAIN clusterM \subseteq ClusterNames
    /\ restart \in BOOLEAN

=============================================================================
